---- MODULE Spec2Model ----
(***************************************************************************)
(* The vault contract of contracts/vault/vault.py (PyTeal, compiled with   *)
(* Mode.Application, version 5) as a state machine.                        *)
(*                                                                         *)
(* State: the application's global key/value store, the per-account local  *)
(* store, the application account's asset holdings (read by the contract   *)
(* through AssetHolding.balance and changed by its inner transactions and  *)
(* by plain asset transfers), the ledger time, and the transaction that is *)
(* being evaluated together with the outcome of its evaluation.            *)
(*                                                                         *)
(* A client submits a transaction, which enters a block with a timestamp  *)
(* (Submit); the ledger evaluates it atomically (Eval) and reports the     *)
(* outcome (Confirm).                                                      *)
(*                                                                         *)
(* The program is an application (Mode.Application, line 256): the ledger  *)
(* evaluates it for application calls only, Txn being the call itself. An  *)
(* asset transfer executes no program. For an OptIn call the ledger        *)
(* allocates the sender's local state before the evaluation; for a         *)
(* ClearState call it runs clear_state_program and removes that state.     *)
(***************************************************************************)
EXTENDS Integers, Sequences, FiniteSets, TLC

VARIABLES
    created,     \* the application exists (its creation transaction was committed)
    global,      \* App.globalGet / App.globalPut store
    local,       \* App.localGet / App.localPut store, per account
    holding,     \* asset holdings of Global.current_application_address()
    now,         \* Global.latest_timestamp()
    pc,          \* "idle" | "pending" | "done": position of the transaction
    txn,         \* the transaction submitted / last evaluated (Txn, Global.group_size)
    result,      \* "none" | "approve" | "reject" | "clear" | "norun"
    handler,     \* the subroutine of the approval program that decided
    inner,       \* inner transactions submitted by the last evaluation
    deposited,   \* history: sum of the amounts of approved usr_deposit, per account
    withdrawn    \* history: sum of the amounts of approved usr_withdrawal, per account

vars == <<created, global, local, holding, now, pc, txn, result, handler, inner,
          deposited, withdrawn>>

-----------------------------------------------------------------------------
(* Bounds of the model. *)

MaxTime == 2      \* ledger times are 1..MaxTime
MaxSupply == 2    \* total supply of an asset: no holding and no transfer exceeds it

(* Constants of the runtime the program refers to. *)

MinTxnFee == 1000     \* Global.min_txn_fee()
AppId == 1            \* Global.current_application_id(), non-zero once created

-----------------------------------------------------------------------------
(* Byte strings are sequences of bytes; the keys and operation tags of     *)
(* lines 5-22 are the ASCII codes of their text.                           *)

op_contract_opt_in_vault_asset ==
    <<99, 111, 110, 116, 114, 97, 99, 116, 95, 111, 112, 116, 95, 105, 110, 95,
      118, 97, 117, 108, 116, 95, 97, 115, 115, 101, 116>>
op_usr_opt_in == <<117, 115, 114, 95, 111, 112, 116, 95, 105, 110>>
op_usr_deposit == <<117, 115, 114, 95, 100, 101, 112, 111, 115, 105, 116>>
op_usr_withdrawal ==
    <<117, 115, 114, 95, 119, 105, 116, 104, 100, 114, 97, 119, 97, 108>>

(* Btoi: big-endian bytes to uint64; the opcode fails on more than 8 bytes. *)
BtoiOk(b) == Len(b) <= 8

RECURSIVE BtoiVal(_)
BtoiVal(b) ==
    IF b = <<>> THEN 0
    ELSE 256 * BtoiVal(SubSeq(b, 1, Len(b) - 1)) + b[Len(b)]

Btoi(b) == BtoiVal(b)

-----------------------------------------------------------------------------
(* Addresses, assets, transaction fields. *)

Accounts == {"alice", "bob"}
ZeroAddress == "zero"                 \* Global.zero_address()
AppAddress == "vault"                 \* Global.current_application_address()
Addresses == Accounts \cup {ZeroAddress, AppAddress}
Assets == {7, 8}

ApplicationCall == "appl"             \* TxnType.ApplicationCall
AssetTransfer == "axfer"              \* TxnType.AssetTransfer

NoOp == "NoOp"
OptIn == "OptIn"
CloseOut == "CloseOut"
ClearState == "ClearState"
UpdateApplication == "UpdateApplication"
DeleteApplication == "DeleteApplication"
OnCompletes == {NoOp, OptIn, CloseOut, ClearState, UpdateApplication, DeleteApplication}

NoHolding == 0 - 1                    \* AssetHolding.balance(...).hasValue() = 0

NoLocal == [opted |-> FALSE, balance |-> 0, d_timestamp |-> 0]
EmptyLocal == [opted |-> TRUE, balance |-> 0, d_timestamp |-> 0]
NoGlobal == [creator |-> ZeroAddress, city |-> <<>>, max |-> 0, min |-> 0,
             m_asset |-> 0, s_date |-> 0]

(* The fields of Txn the program reads. A field that does not belong to    *)
(* the transaction's type has its zero value.                              *)
MkTxn(ty, id, oc, snd, fee, rk, gs, gi, as, args, rcv, xa, amt, cl) ==
    [type_enum |-> ty, application_id |-> id, on_completion |-> oc,
     sender |-> snd, fee |-> fee, rekey_to |-> rk,
     group_size |-> gs, group_index |-> gi,
     assets |-> as, application_args |-> args,
     asset_receiver |-> rcv, xfer_asset |-> xa, asset_amount |-> amt,
     asset_close_to |-> cl]

NoTxn == MkTxn("none", 0, NoOp, ZeroAddress, 0, ZeroAddress, 0, 0, <<>>, <<>>,
               ZeroAddress, 0, 0, ZeroAddress)

-----------------------------------------------------------------------------
(* Outcome of a subroutine: approve with the new stores and the inner      *)
(* transactions it submitted, or fail (Assert, Err, Reject or a failing    *)
(* opcode) with nothing written.                                           *)

Rejected(op) ==
    [ok |-> FALSE, op |-> op, global |-> global, local |-> local, itxns |-> <<>>]

Approved(op, g, l, itxns) ==
    [ok |-> TRUE, op |-> op, global |-> g, local |-> l, itxns |-> itxns]

(* App.optedIn(account, Global.current_application_id()) *)
AppOptedIn(l, a) == l[a].opted

(* App.localGet: the value of a key that is not set is 0. *)
LocalGet(l, a, key) == l[a][key]

(* App.localPut: fails when the account has no local state in the application. *)
LocalPutOk(l, a) == l[a].opted
LocalPut(l, a, key, v) == [l EXCEPT ![a][key] = v]

(* AssetHolding.balance(Global.current_application_address(), Int(0)):     *)
(* the holding of Txn.assets[0]; the opcode fails without a slot 0.        *)
AssetHoldingOk(t) == Len(t.assets) >= 1
AssetHoldingHasValue(t) == holding[t.assets[1]] # NoHolding

(* The sanity checks every Assert of the subroutines starts with. *)
Singleton(t) ==
    /\ t.group_size = 1
    /\ t.group_index = 0
    /\ t.rekey_to = ZeroAddress

InnerAssetTransfer(receiver, amount, asset) ==
    [type_enum |-> AssetTransfer, asset_receiver |-> receiver,
     asset_amount |-> amount, fee |-> 0, xfer_asset |-> asset]

\* faulty variant: the group and the rekey target are not looked at
contract_opt_in_asset_cond_any_group(l, t, asset_id) ==
    /\ AssetHoldingOk(t)
    /\ t.type_enum = ApplicationCall
    /\ Len(t.assets) = 1
    /\ t.assets[1] = asset_id
    /\ ~AssetHoldingHasValue(t)
    /\ t.sender = global.creator
    /\ t.fee >= MinTxnFee * 2

\* faulty variant: the fee of the call alone is asked for, not that of the inner transfer too
contract_opt_in_asset_cond_single_fee(l, t, asset_id) ==
    /\ AssetHoldingOk(t)
    /\ t.type_enum = ApplicationCall
    /\ Singleton(t)
    /\ Len(t.assets) = 1
    /\ t.assets[1] = asset_id
    /\ ~AssetHoldingHasValue(t)
    /\ t.sender = global.creator
    /\ t.fee >= MinTxnFee

\* faulty variant: the holding of the asset is not looked at
contract_opt_in_asset_cond_no_holding_check(l, t, asset_id) ==
    /\ AssetHoldingOk(t)
    /\ t.type_enum = ApplicationCall
    /\ Singleton(t)
    /\ Len(t.assets) = 1
    /\ t.assets[1] = asset_id
    /\ t.sender = global.creator
    /\ t.fee >= MinTxnFee * 2

\* faulty variant: the sender is not compared with the creator
contract_opt_in_asset_cond_any_sender(l, t, asset_id) ==
    /\ AssetHoldingOk(t)
    /\ t.type_enum = ApplicationCall
    /\ Singleton(t)
    /\ Len(t.assets) = 1
    /\ t.assets[1] = asset_id
    /\ ~AssetHoldingHasValue(t)
    /\ t.fee >= MinTxnFee * 2

(* lines 40-72 *)
contract_opt_in_asset_cond(l, t, asset_id) ==
    /\ AssetHoldingOk(t)
    /\ t.type_enum = ApplicationCall
    /\ Singleton(t)
    /\ Len(t.assets) = 1
    /\ t.assets[1] = asset_id
    /\ ~AssetHoldingHasValue(t)
    /\ t.sender = global.creator
    /\ t.fee >= MinTxnFee * 2

contract_opt_in_asset(l, t, asset_id) ==
    IF contract_opt_in_asset_cond(l, t, asset_id)
    THEN Approved("contract_opt_in_asset", global, l,
                  <<InnerAssetTransfer(AppAddress, 0, asset_id)>>)
    ELSE Rejected("contract_opt_in_asset")

(* lines 81-100 *)
usr_opt_in_cond(l, t) ==
    /\ t.type_enum = ApplicationCall
    /\ Singleton(t)
    /\ ~AppOptedIn(l, t.sender)
    /\ t.fee >= MinTxnFee

usr_opt_in(l, t) ==
    IF usr_opt_in_cond(l, t) /\ LocalPutOk(l, t.sender)
    THEN Approved("usr_opt_in", global,
                  LocalPut(LocalPut(l, t.sender, "balance", 0),
                           t.sender, "d_timestamp", 0),
                  <<>>)
    ELSE Rejected("usr_opt_in")

\* faulty variant: the deposit is taken from the call itself, crediting the amount named
\* in application_args[1] with no transfer behind it
usr_deposit_on_call(l, t) ==
    IF /\ t.type_enum = ApplicationCall
       /\ Singleton(t)
       /\ AppOptedIn(l, t.sender)
       /\ Len(t.application_args) = 2
       /\ BtoiOk(t.application_args[2])
       /\ Btoi(t.application_args[2]) > 0
       /\ t.fee >= MinTxnFee
    THEN Approved("usr_deposit", global,
                  LocalPut(LocalPut(l, t.sender, "balance",
                                    LocalGet(l, t.sender, "balance")
                                        + Btoi(t.application_args[2])),
                           t.sender, "d_timestamp", now),
                  <<>>)
    ELSE Rejected("usr_deposit")

\* faulty variant: the deposit is taken from the call itself and is written to the
\* local state of the creator, not to that of the sender
usr_deposit_to_creator(l, t) ==
    IF /\ t.type_enum = ApplicationCall
       /\ Singleton(t)
       /\ AppOptedIn(l, global.creator)
       /\ Len(t.application_args) = 2
       /\ BtoiOk(t.application_args[2])
       /\ Btoi(t.application_args[2]) > 0
       /\ t.fee >= MinTxnFee
    THEN Approved("usr_deposit", global,
                  LocalPut(LocalPut(l, global.creator, "balance",
                                    LocalGet(l, global.creator, "balance")
                                        + Btoi(t.application_args[2])),
                           global.creator, "d_timestamp", now),
                  <<>>)
    ELSE Rejected("usr_deposit")

(* lines 117-145 *)
usr_deposit_cond(l, t) ==
    /\ t.type_enum = AssetTransfer
    /\ Singleton(t)
    /\ t.asset_close_to = ZeroAddress
    /\ AppOptedIn(l, t.sender)
    /\ t.asset_receiver = AppAddress
    /\ t.xfer_asset = global.m_asset
    /\ t.asset_amount > 0
    /\ t.fee >= MinTxnFee

usr_deposit(l, t) ==
    IF usr_deposit_cond(l, t)
    THEN Approved("usr_deposit", global,
                  LocalPut(LocalPut(l, t.sender, "balance",
                                    LocalGet(l, t.sender, "balance") + t.asset_amount),
                           t.sender, "d_timestamp", now),
                  <<>>)
    ELSE Rejected("usr_deposit")

\* faulty variant: the amount is not required to be positive
usr_withdrawal_cond_any_amount(l, t) ==
    /\ Len(t.application_args) >= 2
    /\ BtoiOk(t.application_args[2])
    /\ Len(t.assets) >= 1
    /\ t.type_enum = ApplicationCall
    /\ Singleton(t)
    /\ Len(t.application_args) = 2
    /\ Len(t.assets) = 1
    /\ AppOptedIn(l, t.sender)
    /\ t.assets[1] = global.m_asset
    /\ Btoi(t.application_args[2]) <= LocalGet(l, t.sender, "balance")
    /\ t.fee >= MinTxnFee * 2

(* lines 164-200 *)
usr_withdrawal_cond(l, t) ==
    /\ Len(t.application_args) >= 2
    /\ BtoiOk(t.application_args[2])
    /\ Len(t.assets) >= 1
    /\ t.type_enum = ApplicationCall
    /\ Singleton(t)
    /\ Len(t.application_args) = 2
    /\ Len(t.assets) = 1
    /\ AppOptedIn(l, t.sender)
    /\ t.assets[1] = global.m_asset
    /\ Btoi(t.application_args[2]) > 0
    /\ Btoi(t.application_args[2]) <= LocalGet(l, t.sender, "balance")
    /\ t.fee >= MinTxnFee * 2

usr_withdrawal(l, t) ==
    IF usr_withdrawal_cond(l, t)
    THEN LET temp == LocalGet(l, t.sender, "balance")
             amount == Btoi(t.application_args[2])
         IN  IF temp - amount >= 0 /\ LocalPutOk(l, t.sender)   \* uint64 "-" fails below 0
             THEN Approved("usr_withdrawal", global,
                           LocalPut(l, t.sender, "balance", temp - amount),
                           <<InnerAssetTransfer(t.sender, amount, t.assets[1])>>)
             ELSE Rejected("usr_withdrawal")
    ELSE Rejected("usr_withdrawal")

(* lines 208-222 *)
handle_creation_cond(t) ==
    /\ Len(t.application_args) = 3
    /\ Len(t.assets) = 1

\* faulty variant: the two thresholds are read from each other's argument
handle_creation_swapped_thresholds(l, t) ==
    IF /\ handle_creation_cond(t)
       /\ BtoiOk(t.application_args[2])
       /\ BtoiOk(t.application_args[3])
    THEN Approved("handle_creation",
                  [creator |-> t.sender,
                   city    |-> t.application_args[1],
                   max     |-> Btoi(t.application_args[3]),
                   min     |-> Btoi(t.application_args[2]),
                   m_asset |-> t.assets[1],
                   s_date  |-> now],
                  l, <<>>)
    ELSE Rejected("handle_creation")

handle_creation(l, t) ==
    IF /\ handle_creation_cond(t)
       /\ BtoiOk(t.application_args[2])
       /\ BtoiOk(t.application_args[3])
    THEN Approved("handle_creation",
                  [creator |-> t.sender,
                   city    |-> t.application_args[1],
                   max     |-> Btoi(t.application_args[2]),
                   min     |-> Btoi(t.application_args[3]),
                   m_asset |-> t.assets[1],
                   s_date  |-> now],
                  l, <<>>)
    ELSE Rejected("handle_creation")

(* lines 224-231 *)
handle_optin(l, t) ==
    IF t.application_args = <<>> THEN Rejected("handle_optin")
    ELSE IF t.application_args[1] = op_contract_opt_in_vault_asset
         THEN contract_opt_in_asset(l, t, global.m_asset)
    ELSE IF t.application_args[1] = op_usr_opt_in
         THEN usr_opt_in(l, t)
    ELSE Rejected("handle_optin")

\* faulty variant: a call with no tag, or with a tag that is not known, is let through
handle_noop_default_approve(l, t) ==
    IF t.application_args = <<>> THEN Approved("handle_noop", global, l, <<>>)
    ELSE IF t.application_args[1] = op_usr_deposit
         THEN usr_deposit(l, t)
    ELSE IF t.application_args[1] = op_usr_withdrawal
         THEN usr_withdrawal(l, t)
    ELSE Approved("handle_noop", global, l, <<>>)

(* lines 233-239 *)
handle_noop(l, t) ==
    IF t.application_args = <<>> THEN Rejected("handle_noop")
    ELSE IF t.application_args[1] = op_usr_deposit
         THEN usr_deposit(l, t)
    ELSE IF t.application_args[1] = op_usr_withdrawal
         THEN usr_withdrawal(l, t)
    ELSE Rejected("handle_noop")

\* faulty variant: the close-out is let through
handle_closeout_approves == Approved("handle_closeout", global, local, <<>>)

(* lines 241-245 *)
handle_updateapp == Rejected("handle_updateapp")
handle_deleteapp == Rejected("handle_deleteapp")
handle_closeout == Rejected("handle_closeout")

\* faulty variant: the creation branch is taken on the shape of the call, not on application_id
program_creation_by_shape(l, t) ==
    IF t.application_id = 0 \/ Len(t.application_args) = 3 THEN handle_creation(l, t)
    ELSE IF t.on_completion = OptIn THEN handle_optin(l, t)
    ELSE IF t.on_completion = CloseOut THEN handle_closeout
    ELSE IF t.on_completion = UpdateApplication THEN handle_updateapp
    ELSE IF t.on_completion = DeleteApplication THEN handle_deleteapp
    ELSE IF t.on_completion = NoOp THEN handle_noop(l, t)
    ELSE Rejected("program")

(* lines 247-254: the first branch of the Cond whose test holds; none: Err *)
program(l, t) ==
    IF t.application_id = 0 THEN handle_creation(l, t)
    ELSE IF t.on_completion = OptIn THEN handle_optin(l, t)
    ELSE IF t.on_completion = CloseOut THEN handle_closeout
    ELSE IF t.on_completion = UpdateApplication THEN handle_updateapp
    ELSE IF t.on_completion = DeleteApplication THEN handle_deleteapp
    ELSE IF t.on_completion = NoOp THEN handle_noop(l, t)
    ELSE Rejected("program")

(* lines 258-261: Return(Int(1)) *)
clear_state_program == TRUE

-----------------------------------------------------------------------------
(* The ledger around the program.                                          *)

(* InnerTxnBuilder.Submit(): an asset transfer sent by the application     *)
(* account. A transfer of 0 to itself opts it into the asset; a transfer   *)
(* to another account needs a holding that covers the amount.              *)
SubmitInnerOk(h, itx) ==
    IF itx.asset_receiver = AppAddress
    THEN h[itx.xfer_asset] = NoHolding => itx.asset_amount = 0
    ELSE h[itx.xfer_asset] # NoHolding /\ h[itx.xfer_asset] >= itx.asset_amount

SubmitInner(h, itx) ==
    IF itx.asset_receiver = AppAddress
    THEN IF h[itx.xfer_asset] = NoHolding THEN [h EXCEPT ![itx.xfer_asset] = 0] ELSE h
    ELSE [h EXCEPT ![itx.xfer_asset] = @ - itx.asset_amount]

(* An asset transfer is not an application call: the ledger moves the      *)
(* asset and executes no program of the application (Mode.Application).    *)
(* One that carries application fields is not well formed and is dropped.  *)
TransferCredits(t) ==
    /\ t.application_args = <<>>
    /\ t.asset_receiver = AppAddress
    /\ holding[t.xfer_asset] # NoHolding

LedgerTransfer(t) ==
    [result |-> "norun", handler |-> "none", created |-> created,
     global |-> global, local |-> local, inner |-> <<>>,
     holding |-> IF TransferCredits(t)
                 THEN [holding EXCEPT ![t.xfer_asset] = @ + t.asset_amount]
                 ELSE holding]

(* OnComplete.ClearState: the clear state program runs instead of the      *)
(* approval program and the sender's local state is removed, whatever the  *)
(* clear state program returns.                                            *)
LedgerClearState(t) ==
    IF local[t.sender].opted /\ clear_state_program \in BOOLEAN
    THEN [result |-> "clear", handler |-> "clear_state_program", created |-> created,
          global |-> global, local |-> [local EXCEPT ![t.sender] = NoLocal],
          inner |-> <<>>, holding |-> holding]
    ELSE [result |-> "reject", handler |-> "none", created |-> created,
          global |-> global, local |-> local, inner |-> <<>>, holding |-> holding]

(* An application call. With OnComplete.OptIn the ledger allocates the     *)
(* sender's local state before it evaluates the approval program (and      *)
(* fails if the sender has one already), so that the program can write to  *)
(* it; a failing program, or a failing inner transaction, undoes           *)
(* everything. An approved OnComplete.CloseOut call of an opted-in sender  *)
(* removes the sender's local state.                                       *)
LedgerCall(t, envOk) ==
    LET allocOk == /\ t.on_completion = OptIn => ~local[t.sender].opted
                   /\ t.on_completion = CloseOut /\ t.application_id # 0
                         => local[t.sender].opted
        l0  == IF t.on_completion = OptIn
               THEN [local EXCEPT ![t.sender] = EmptyLocal]
               ELSE local
        out == program(l0, t)
        innerOk == \/ out.itxns = <<>>
                   \/ envOk /\ SubmitInnerOk(holding, out.itxns[1])
    IN  IF allocOk /\ out.ok /\ innerOk
        THEN [result |-> "approve", handler |-> out.op, created |-> TRUE,
              global |-> out.global,
              local |-> IF t.on_completion = CloseOut /\ t.application_id # 0
                        THEN [out.local EXCEPT ![t.sender] = NoLocal]
                        ELSE out.local,
              inner |-> out.itxns,
              holding |-> IF out.itxns = <<>> THEN holding
                          ELSE SubmitInner(holding, out.itxns[1])]
        ELSE [result |-> "reject", handler |-> IF allocOk THEN out.op ELSE "none",
              created |-> created, global |-> global, local |-> local,
              inner |-> <<>>, holding |-> holding]

Ledger(t, envOk) ==
    IF t.type_enum # ApplicationCall THEN LedgerTransfer(t)
    ELSE IF t.on_completion = ClearState THEN LedgerClearState(t)
    ELSE LedgerCall(t, envOk)

-----------------------------------------------------------------------------
(* The transactions clients submit. *)

Fees == {0, MinTxnFee, 2 * MinTxnFee}
Times == 1..MaxTime
Amounts == 0..MaxSupply

\* <<rekey_to, group_size, group_index>>
GoodShape == <<ZeroAddress, 1, 0>>
GroupShapes == {GoodShape, <<"bob", 1, 0>>, <<ZeroAddress, 2, 0>>, <<ZeroAddress, 2, 1>>}

AssetLists == {<<>>, <<7>>, <<8>>, <<7, 8>>}

\* <<group shape, referenced assets>>: at most one of the two is off
CallShapes ==
    {<<GoodShape, as>> : as \in AssetLists} \cup {<<g, <<7>>>> : g \in GroupShapes}

\* <<group shape, receiver, asset, close-to>> of a transfer: at most one is off
TransferShapes ==
    {<<g, AppAddress, 7, ZeroAddress>> : g \in GroupShapes}
    \cup {<<GoodShape, "bob", 7, ZeroAddress>>,
          <<GoodShape, AppAddress, 8, ZeroAddress>>,
          <<GoodShape, AppAddress, 7, "bob">>}

city_arg == <<78, 89, 67>>
CreationArgs == {<<city_arg, <<3, 232>>, <<10>>>>,
                 <<city_arg, <<3, 232>>, <<0, 0, 0, 0, 0, 0, 0, 0, 10>>>>,
                 <<city_arg, <<3, 232>>>>}

AmountArgs == {<<0>>, <<1>>, <<0, 2>>, <<0, 0, 0, 0, 0, 0, 0, 0, 1>>}

CallArgs ==
    {<<>>, <<op_contract_opt_in_vault_asset>>, <<op_usr_opt_in>>, <<op_usr_deposit>>,
     <<op_usr_withdrawal>>, <<<<98, 111, 103, 117, 115>>>>,
     <<op_usr_withdrawal, <<1>>, <<1>>>>, <<op_usr_deposit, <<1>>>>,
     <<city_arg, <<3, 232>>, <<10>>>>}
    \cup {<<op_usr_withdrawal, a>> : a \in AmountArgs}

CreationTxns ==
    {MkTxn(ApplicationCall, 0, oc, s, MinTxnFee, c[1][1], c[1][2], c[1][3], c[2], args,
           ZeroAddress, 0, 0, ZeroAddress) :
        oc \in {NoOp, OptIn}, s \in Accounts, c \in CallShapes, args \in CreationArgs}

CallTxns ==
    {MkTxn(ApplicationCall, AppId, oc, s, f, c[1][1], c[1][2], c[1][3], c[2], args,
           ZeroAddress, 0, 0, ZeroAddress) :
        oc \in OnCompletes, s \in Accounts, f \in Fees, c \in CallShapes,
        args \in CallArgs}

TransferTxns ==
    {MkTxn(AssetTransfer, 0, NoOp, s, MinTxnFee, x[1][1], x[1][2], x[1][3], <<>>, args,
           x[2], x[3], amt, x[4]) :
        s \in Accounts, x \in TransferShapes, args \in {<<>>, <<op_usr_deposit>>},
        amt \in Amounts}

Submittable ==
    IF created THEN CallTxns \cup TransferTxns ELSE CreationTxns

-----------------------------------------------------------------------------
Init ==
    /\ created = FALSE
    /\ global = NoGlobal
    /\ local = [a \in Accounts |-> NoLocal]
    /\ holding = [x \in Assets |-> NoHolding]
    /\ now = 1
    /\ pc = "idle"
    /\ txn = NoTxn
    /\ result = "none"
    /\ handler = "none"
    /\ inner = <<>>
    /\ deposited = [a \in Accounts |-> 0]
    /\ withdrawn = [a \in Accounts |-> 0]

(* A client's transaction is taken into a block, whose timestamp is not    *)
(* earlier than the previous block's.                                      *)
Submit ==
    /\ pc = "idle"
    /\ \E t \in Submittable, ts \in Times :
         /\ ts >= now
         /\ ts <= now + 1
         /\ t.type_enum = AssetTransfer /\ holding[t.xfer_asset] # NoHolding
               => holding[t.xfer_asset] + t.asset_amount <= MaxSupply
         /\ txn' = t
         /\ now' = ts
    /\ pc' = "pending"
    /\ UNCHANGED <<created, global, local, holding, result, handler, inner,
                   deposited, withdrawn>>

(* The ledger evaluates the pending transaction, all or nothing. *)
Eval ==
    /\ pc = "pending"
    /\ \E envOk \in BOOLEAN :
         LET r == Ledger(txn, envOk) IN
         /\ created' = r.created
         /\ global' = r.global
         /\ local' = r.local
         /\ holding' = r.holding
         /\ result' = r.result
         /\ handler' = r.handler
         /\ inner' = r.inner
         /\ deposited' = IF r.result = "approve" /\ r.handler = "usr_deposit"
                         THEN [deposited EXCEPT ![txn.sender] = @ + txn.asset_amount]
                         ELSE deposited
         /\ withdrawn' = IF r.result = "approve" /\ r.handler = "usr_withdrawal"
                         THEN [withdrawn EXCEPT
                                 ![txn.sender] = @ + Btoi(txn.application_args[2])]
                         ELSE withdrawn
    /\ pc' = "done"
    /\ UNCHANGED <<now, txn>>

(* The outcome is reported to the client; the ledger takes the next one. *)
Confirm ==
    /\ pc = "done"
    /\ pc' = "idle"
    /\ txn' = NoTxn
    /\ result' = "none"
    /\ handler' = "none"
    /\ inner' = <<>>
    /\ UNCHANGED <<created, global, local, holding, now, deposited, withdrawn>>

Next == Submit \/ Eval \/ Confirm

Spec == Init /\ [][Next]_vars

-----------------------------------------------------------------------------
(* Vocabulary of the properties.                                           *)

\* the step in which the ledger evaluates the pending transaction
Evaluated == pc = "pending" /\ pc' = "done"

\* the evaluation left every store and the application's holdings as they were
NoEffect ==
    /\ global' = global
    /\ local' = local
    /\ holding' = holding
    /\ inner' = <<>>

Tagged(t, tag) == t.application_args # <<>> /\ t.application_args[1] = tag

IsCall(t) == t.type_enum = ApplicationCall /\ t.application_id # 0

\* what the vault holds of the tracked asset
VaultHeld == IF holding[global.m_asset] = NoHolding THEN 0 ELSE holding[global.m_asset]

\* a transfer of the tracked asset to the vault, submitted as usr_deposit
IsDeposit(t) ==
    /\ t.type_enum = AssetTransfer
    /\ Tagged(t, op_usr_deposit)
    /\ t.asset_amount > 0
    /\ t.asset_receiver = AppAddress
    /\ t.xfer_asset = global.m_asset
    /\ t.asset_close_to = ZeroAddress
    /\ Singleton(t)
    /\ t.fee >= MinTxnFee

\* a call that asks to withdraw Btoi(application_args[1])
IsWithdrawalRequest(t) ==
    /\ IsCall(t)
    /\ t.on_completion = NoOp
    /\ Tagged(t, op_usr_withdrawal)
    /\ Len(t.application_args) = 2
    /\ BtoiOk(t.application_args[2])

WithdrawalAmount(t) == Btoi(t.application_args[2])

\* a withdrawal request in which nothing but the amount can be at fault
WellFormedWithdrawal(t) ==
    /\ IsWithdrawalRequest(t)
    /\ Singleton(t)
    /\ t.assets = <<global.m_asset>>
    /\ t.fee >= 2 * MinTxnFee

IsAssetOptIn(t) ==
    IsCall(t) /\ t.on_completion = OptIn /\ Tagged(t, op_contract_opt_in_vault_asset)

\* an asset opt-in in which nothing but the sender, the fee or the holding can be at fault
WellFormedAssetOptIn(t) ==
    /\ IsAssetOptIn(t)
    /\ Singleton(t)
    /\ t.assets = <<global.m_asset>>

IsUsrOptIn(t) ==
    IsCall(t) /\ t.on_completion = OptIn /\ Tagged(t, op_usr_opt_in)

IsUnsupported(t) ==
    IsCall(t) /\ t.on_completion \in {CloseOut, UpdateApplication, DeleteApplication}

-----------------------------------------------------------------------------
(* C1. Conservation: in every reachable state, the depositBalance of every *)
(* opted-in account equals the sum of the amounts of its approved deposits *)
(* minus the sum of the amounts of its approved withdrawals, and is not    *)
(* negative.                                                               *)
C1_Conservation ==
    \A a \in Accounts :
        local[a].opted =>
            /\ local[a].balance = deposited[a] - withdrawn[a]
            /\ local[a].balance >= 0

\* an opted-in account has had a deposit or a withdrawal request evaluated
C1_Witness ==
    /\ pc = "done"
    /\ local[txn.sender].opted
    /\ IsCall(txn)
    /\ txn.on_completion = NoOp
    /\ Tagged(txn, op_usr_deposit) \/ Tagged(txn, op_usr_withdrawal)

(* C2. The original statement: an opted-in account's transfer of the       *)
(* tracked asset to the vault (amount > 0, close-to unset, singleton, no   *)
(* rekey, fee >= minimum), submitted with the tag usr_deposit, is approved, *)
(* adds the transferred amount to depositBalance and sets depositTimestamp *)
(* to the ledger time.                                                     *)
C2_DepositIsCredited ==
    [][Evaluated /\ IsDeposit(txn) /\ local[txn.sender].opted
         => /\ result' = "approve"
            /\ local'[txn.sender].balance = local[txn.sender].balance + txn.asset_amount
            /\ local'[txn.sender].d_timestamp = now]_vars

(* C3. A withdrawal request whose amount is 0, or greater than the         *)
(* caller's depositBalance, is rejected and changes neither the local      *)
(* state of any account, nor the global state, nor the vault's holdings,   *)
(* and submits no outbound transfer.                                       *)
C3_BadAmountRejected ==
    [][Evaluated /\ IsWithdrawalRequest(txn)
         /\ (WithdrawalAmount(txn) = 0
             \/ WithdrawalAmount(txn) > LocalGet(local, txn.sender, "balance"))
         => result' = "reject" /\ NoEffect]_vars

\* an opted-in account's request is rejected though only its amount is at fault
C3_Witness ==
    /\ pc = "done"
    /\ result = "reject"
    /\ WellFormedWithdrawal(txn)
    /\ local[txn.sender].opted
    /\ holding[global.m_asset] # NoHolding
    /\ WithdrawalAmount(txn) = 0

(* C5. In every reachable state the depositBalance of every account is at  *)
(* most what the vault holds of the tracked asset.                         *)
C5_BalanceWithinHolding ==
    \A a \in Accounts : local[a].opted => local[a].balance <= VaultHeld

\* an opted-in account, and a vault that holds some of the tracked asset
C5_Witness ==
    \E a \in Accounts : local[a].opted /\ VaultHeld > 0

(* C6. Once the vault holds the tracked asset it keeps holding it, and     *)
(* every later contract_opt_in_vault_asset call is rejected: the asset     *)
(* opt-in is approved at most once.                                        *)
C6_AssetOptInOnce ==
    [][created /\ holding[global.m_asset] # NoHolding
         => /\ holding'[global.m_asset] # NoHolding
            /\ Evaluated /\ IsAssetOptIn(txn) => result' = "reject" /\ NoEffect]_vars

\* the creator repeats the call, with the doubled fee, and is rejected
C6_Witness ==
    /\ pc = "done"
    /\ result = "reject"
    /\ WellFormedAssetOptIn(txn)
    /\ txn.sender = global.creator
    /\ txn.fee >= 2 * MinTxnFee
    /\ ~local[txn.sender].opted
    /\ holding[global.m_asset] # NoHolding

(* C7. An asset opt-in is approved only if its sender is the stored        *)
(* creator and its fee is at least twice the minimum fee; otherwise it is  *)
(* rejected with no state change and no outbound transfer.                 *)
C7_AssetOptInAuthorized ==
    [][Evaluated /\ IsAssetOptIn(txn)
         => /\ result' = "approve"
                 => txn.sender = global.creator /\ txn.fee >= 2 * MinTxnFee
            /\ txn.sender # global.creator \/ txn.fee < 2 * MinTxnFee
                 => result' = "reject" /\ NoEffect]_vars

\* a call the vault could approve, but for its sender or its fee, is rejected
C7_Witness ==
    /\ pc = "done"
    /\ result = "reject"
    /\ WellFormedAssetOptIn(txn)
    /\ ~local[txn.sender].opted
    /\ holding[global.m_asset] = NoHolding
    /\ \/ txn.sender # global.creator /\ txn.fee >= 2 * MinTxnFee
       \/ txn.sender = global.creator /\ txn.fee = MinTxnFee

(* C8. The original statement: the account opt-in of an account that is    *)
(* not opted in (direct call, singleton, no rekey, fee >= minimum) is      *)
(* approved and creates its local state with depositBalance 0 and          *)
(* depositTimestamp 0; that of an opted-in account is rejected.            *)
C8_UsrOptInApproved ==
    [][Evaluated /\ IsUsrOptIn(txn) /\ Singleton(txn) /\ txn.fee >= MinTxnFee
         => IF local[txn.sender].opted
            THEN result' = "reject" /\ NoEffect
            ELSE result' = "approve" /\ local'[txn.sender] = EmptyLocal]_vars

(* C9. Every close-out, program update and program removal sent to the     *)
(* vault is rejected, whatever its other fields, and changes nothing.      *)
C9_UnsupportedRejected ==
    [][Evaluated /\ IsUnsupported(txn) => result' = "reject" /\ NoEffect]_vars

\* the creator's own such request, with the doubled fee, has been rejected
C9_Witness ==
    /\ pc = "done"
    /\ IsUnsupported(txn)
    /\ txn.sender = global.creator
    /\ txn.fee = 2 * MinTxnFee
    /\ Singleton(txn)
    /\ result = "reject"

(* C10. Once the creation is approved no transaction changes the global    *)
(* state, and no later transaction is decided by the creation handler.     *)
C10_GlobalImmutable ==
    [][created => global' = global /\ handler' # "handle_creation"]_vars

\* a call to the created vault that has the shape of a creation was evaluated
C10_Witness ==
    /\ created
    /\ pc = "done"
    /\ IsCall(txn)
    /\ txn.on_completion = NoOp
    /\ Len(txn.application_args) = 3
    /\ Len(txn.assets) = 1

(* C11, as stated. An account comes to have a local state only by an       *)
(* approved account opt-in (usr_opt_in) of its own, an approved account    *)
(* opt-in leaves its sender with a local state, and a local state, once    *)
(* there, is never removed.                                                *)
C11_LocalStateByUsrOptIn ==
    [][\A a \in Accounts :
          /\ ~local[a].opted /\ local'[a].opted
                => Evaluated /\ txn.sender = a /\ handler' = "usr_opt_in"
                             /\ result' = "approve"
          /\ Evaluated /\ txn.sender = a /\ handler' = "usr_opt_in"
                       /\ result' = "approve" => local'[a].opted
          /\ local[a].opted => local'[a].opted]_vars

(* C11, amended. An account comes to have a local state only by an         *)
(* approved OnComplete.OptIn call of its own, whichever handler decides    *)
(* it; every approved OnComplete.OptIn call leaves its sender with a local *)
(* state; and a local state is removed only by the account's own           *)
(* OnComplete.ClearState call, never by the approval program.              *)
C11_LocalStateByOptInCall ==
    [][\A a \in Accounts :
          /\ ~local[a].opted /\ local'[a].opted
                => Evaluated /\ txn.sender = a /\ txn.type_enum = ApplicationCall
                             /\ txn.on_completion = OptIn /\ result' = "approve"
          /\ Evaluated /\ txn.sender = a /\ txn.type_enum = ApplicationCall
                       /\ txn.on_completion = OptIn /\ result' = "approve"
                => local'[a].opted
          /\ local[a].opted /\ ~local'[a].opted
                => Evaluated /\ txn.sender = a /\ txn.type_enum = ApplicationCall
                             /\ txn.on_completion = ClearState
                             /\ handler' = "clear_state_program"]_vars

\* an account that was opted in by the asset opt-in has cleared its local state
C11_Witness ==
    /\ created
    /\ pc = "done"
    /\ txn.on_completion = ClearState
    /\ handler = "clear_state_program"
    /\ holding[global.m_asset] # NoHolding
    /\ ~local[txn.sender].opted

\* the preconditions that the called operation has, in the state before the call;
\* a call with no tag or with a tag of another category has none that it meets
C12_PreconditionsMet(t) ==
    IF IsAssetOptIn(t)
    THEN /\ Singleton(t)
         /\ t.assets = <<global.m_asset>>
         /\ holding[global.m_asset] = NoHolding
         /\ t.sender = global.creator
         /\ t.fee >= 2 * MinTxnFee
    ELSE IF IsUsrOptIn(t)
    THEN /\ Singleton(t)
         /\ ~local[t.sender].opted
         /\ t.fee >= MinTxnFee
    ELSE IF t.on_completion = NoOp /\ Tagged(t, op_usr_deposit)
    THEN /\ t.type_enum = AssetTransfer
         /\ Singleton(t)
         /\ t.asset_close_to = ZeroAddress
         /\ local[t.sender].opted
         /\ t.asset_receiver = AppAddress
         /\ t.xfer_asset = global.m_asset
         /\ t.asset_amount > 0
         /\ t.fee >= MinTxnFee
    ELSE IF t.on_completion = NoOp /\ Tagged(t, op_usr_withdrawal)
    THEN /\ Singleton(t)
         /\ Len(t.application_args) = 2
         /\ t.assets = <<global.m_asset>>
         /\ local[t.sender].opted
         /\ BtoiOk(t.application_args[2])
         /\ WithdrawalAmount(t) > 0
         /\ WithdrawalAmount(t) <= local[t.sender].balance
         /\ t.fee >= 2 * MinTxnFee
    ELSE FALSE

C13_ApprovedIsSingleton ==
    pc = "done" /\ result = "approve" => Singleton(txn)

(* C13, amended. Every transaction approved by a handler other than the    *)
(* creation handler was alone in its group (size 1, index 0) and set no    *)
(* rekey target.                                                           *)
C13_ApprovedCallIsSingleton ==
    pc = "done" /\ result = "approve" /\ handler # "handle_creation" => Singleton(txn)

\* an asset opt-in, alone in its group and with no rekey target, was approved
C13_Witness ==
    /\ created
    /\ pc = "done"
    /\ result = "approve"
    /\ handler = "contract_opt_in_asset"
    /\ Singleton(txn)
    /\ inner # <<>>

(* C14. An outbound asset transfer is emitted only by an approved asset    *)
(* opt-in or an approved withdrawal, exactly one for each such approval    *)
(* and none for a creation, an account opt-in or a deposit; the emitted    *)
(* transfer has fee 0, and the transaction that caused it paid at least    *)
(* twice the minimum fee.                                                  *)
C14_InnerTransferFunded ==
    /\ inner # <<>>
          => /\ pc = "done"
             /\ result = "approve"
             /\ handler \in {"contract_opt_in_asset", "usr_withdrawal"}
             /\ Len(inner) = 1
             /\ inner[1].type_enum = AssetTransfer
             /\ inner[1].fee = 0
             /\ txn.fee >= 2 * MinTxnFee
    /\ pc = "done" /\ result = "approve"
          /\ handler \in {"contract_opt_in_asset", "usr_withdrawal"}
          => Len(inner) = 1
    /\ pc = "done" /\ result = "approve"
          /\ handler \in {"handle_creation", "usr_opt_in", "usr_deposit"}
          => inner = <<>>

\* an approved asset opt-in has emitted its one transfer, paid for by the doubled fee
C14_Witness ==
    /\ pc = "done"
    /\ result = "approve"
    /\ handler = "contract_opt_in_asset"
    /\ Len(inner) = 1
    /\ inner[1].fee = 0
    /\ inner[1].asset_amount = 0
    /\ txn.fee = 2 * MinTxnFee

(* C15. A transaction changes the local state of no account but its        *)
(* sender: the depositBalance and the depositTimestamp of every other      *)
(* account are after an account opt-in, a deposit or a withdrawal what     *)
(* they were before it; and an approved withdrawal leaves the              *)
(* depositTimestamp of its sender as it was.                               *)
C15_OnlySenderLocalChanges ==
    [][/\ \A a \in Accounts :
             local'[a] # local[a] => Evaluated /\ txn.sender = a
       /\ Evaluated /\ result' = "approve" /\ handler' = "usr_withdrawal"
             => local'[txn.sender].d_timestamp = local[txn.sender].d_timestamp]_vars

\* an account opt-in, a deposit or a withdrawal of another account was evaluated
\* while the creator had a local state
C15_Witness ==
    /\ created
    /\ pc = "done"
    /\ IsCall(txn)
    /\ \/ Tagged(txn, op_usr_opt_in)
       \/ Tagged(txn, op_usr_deposit)
       \/ Tagged(txn, op_usr_withdrawal)
    /\ Singleton(txn)
    /\ txn.fee >= MinTxnFee
    /\ txn.sender # global.creator
    /\ local[global.creator].opted
    /\ now > global.s_date

\* the integer that a byte string denotes, most significant byte first
RECURSIVE C17_IntegerValue(_, _)
C17_IntegerValue(b, acc) ==
    IF b = <<>> THEN acc ELSE C17_IntegerValue(Tail(b), 256 * acc + Head(b))

\* the global state that the creation t is to leave
C17_CreatedState(t) ==
    [creator |-> t.sender,
     city    |-> t.application_args[1],
     max     |-> C17_IntegerValue(t.application_args[2], 0),
     min     |-> C17_IntegerValue(t.application_args[3], 0),
     m_asset |-> t.assets[1],
     s_date  |-> now]

C17_IsCreation(t) == t.type_enum = ApplicationCall /\ t.application_id = 0

C19_DepositUnreachable ==
    /\ pc = "done" /\ handler \in {"usr_deposit", "usr_withdrawal"} => result = "reject"
    /\ \A a \in Accounts :
          local[a].balance = 0 /\ deposited[a] = 0 /\ withdrawn[a] = 0

\* an opted-in account's call tagged usr_deposit, alone in its group and with the fee
\* paid, reached the deposit handler and was rejected
C19_Witness ==
    /\ pc = "done"
    /\ IsCall(txn)
    /\ txn.on_completion = NoOp
    /\ Tagged(txn, op_usr_deposit)
    /\ Len(txn.application_args) = 2
    /\ Singleton(txn)
    /\ txn.fee >= MinTxnFee
    /\ local[txn.sender].opted
    /\ handler = "usr_deposit"
    /\ result = "reject"

\* the sum of the depositBalance of the opted-in accounts among S
RECURSIVE C20_TrackedTotal(_)
C20_TrackedTotal(S) ==
    IF S = {} THEN 0
    ELSE LET a == CHOOSE x \in S : TRUE
         IN  (IF local[a].opted THEN local[a].balance ELSE 0)
                 + C20_TrackedTotal(S \ {a})

(* C20. In every reachable state of a created vault the depositBalance of  *)
(* all opted-in accounts together is at most what the vault holds of the   *)
(* tracked asset.                                                          *)
C20_TotalWithinHolding ==
    created => C20_TrackedTotal(Accounts) <= VaultHeld

\* the vault holds some of the tracked asset and an account has just cleared its
\* local state
C20_Witness ==
    /\ pc = "done"
    /\ result = "clear"
    /\ VaultHeld > 0
    /\ ~local[txn.sender].opted

====
